---- MODULE Spec2Model ----
(***************************************************************************)
(* Model of the MPU Prep Platform API (src/main.py, src/schemas.py).       *)
(*                                                                         *)
(* State: the external document store (three collections the handlers     *)
(* touch), the last request and the last response.  One action per HTTP    *)
(* handler.  Texts are sequences of one-character strings so that strip(), *)
(* lower() and the substring test `k in lowered` are computed, not assumed.*)
(* Python floats of analyze_text are IEEE-754 doubles, modelled bit-exactly *)
(* as integers in units of 2^-56 split in two limbs <<hi, lo>>.            *)
(***************************************************************************)
EXTENDS Integers, Sequences, FiniteSets, TLC

\* The fields of the requests, responses and stored documents, each with the
\* Python type the source gives it.  Every record below lists its fields in
\* this order.
Fields ==
  [ _id             |-> "ObjectId",
    analysisreport  |-> "collection",
    answers         |-> "List[Dict[str, Any]]",
    body            |-> "Any",
    checklistitem   |-> "collection",
    completed       |-> "bool",
    db_ok           |-> "bool",
    detail          |-> "str",
    feedback        |-> "Optional[str]",
    id              |-> "Optional[str]",
    input_text      |-> "str",
    key_themes      |-> "List[str]",
    len             |-> "int",
    message         |-> "str",
    mpuuser         |-> "collection",
    oid             |-> "int",
    op              |-> "str",
    payload         |-> "BaseModel",
    q               |-> "str",
    questions       |-> "List[Dict[str, Any]]",
    recommendations |-> "List[str]",
    risk_score      |-> "float",
    score           |-> "Optional[float]",
    sentiment       |-> "str",
    session_id      |-> "Optional[str]",
    status          |-> "int",
    stored          |-> "int",
    text            |-> "str",
    title           |-> "str",
    trainingsession |-> "collection",
    type            |-> "str",
    user_id         |-> "Optional[str]" ]

VARIABLES store, req, resp, arg

vars == <<req, resp, arg, store>>

(***************************************************************************)
(* Bounds of the model.                                                    *)
(***************************************************************************)
MaxReports == 1
MaxSessions == 2
MaxNewItems == 2
MaxAnswers == 3

Null == "None"

(***************************************************************************)
(* Python str: strip(), lower(), `in`.                                     *)
(***************************************************************************)
LowerAlpha == <<"a","b","c","d","e","f","g","h","i","j","k","l","m","n","o","p","q","r","s","t","u","v","w","x","y","z","ä","ö","ü">>
UpperAlpha == <<"A","B","C","D","E","F","G","H","I","J","K","L","M","N","O","P","Q","R","S","T","U","V","W","X","Y","Z","Ä","Ö","Ü">>

Whitespace == {" ", "\t", "\n"}

LowerChar(c) ==
  IF \E i \in 1..Len(UpperAlpha) : UpperAlpha[i] = c
  THEN LowerAlpha[CHOOSE i \in 1..Len(UpperAlpha) : UpperAlpha[i] = c]
  ELSE c

UpperChar(c) ==
  IF \E i \in 1..Len(LowerAlpha) : LowerAlpha[i] = c
  THEN UpperAlpha[CHOOSE i \in 1..Len(LowerAlpha) : LowerAlpha[i] = c]
  ELSE c

\* str.lower()
Lower(t) == [i \in 1..Len(t) |-> LowerChar(t[i])]

\* mutant of Strip: the text is not stripped
Strip_not(t) == t

\* str.strip(): drop leading and trailing whitespace
Strip(t) ==
  IF \A i \in 1..Len(t) : t[i] \in Whitespace
  THEN <<>>
  ELSE LET first == CHOOSE i \in 1..Len(t) :
                      t[i] \notin Whitespace /\ \A j \in 1..(i-1) : t[j] \in Whitespace
           last  == CHOOSE i \in 1..Len(t) :
                      t[i] \notin Whitespace /\ \A j \in (i+1)..Len(t) : t[j] \in Whitespace
       IN SubSeq(t, first, last)

\* `k in t` for two str: k occurs as a contiguous substring of t
Contains(k, t) ==
  \E i \in 1..(Len(t) - Len(k) + 1) : \A j \in 1..Len(k) : t[i + j - 1] = k[j]

(***************************************************************************)
(* Keyword tables of analyze_text.                                         *)
(***************************************************************************)
negative_keywords ==
  << <<"a","n","g","s","t">>,
     <<"s","o","r","g","e">>,
     <<"p","r","o","b","l","e","m">>,
     <<"r","ü","c","k","f","a","l","l">>,
     <<"u","n","s","i","c","h","e","r">>,
     <<"s","t","r","e","s","s">>,
     <<"a","l","k","o","h","o","l">>,
     <<"d","r","o","g","e","n">> >>

positive_keywords ==
  << <<"v","o","r","b","e","r","e","i","t","e","t">>,
     <<"b","e","r","e","i","t">>,
     <<"b","e","s","s","e","r">>,
     <<"v","e","r","ä","n","d","e","r","t">>,
     <<"t","h","e","r","a","p","i","e">>,
     <<"k","o","n","t","r","o","l","l","e">>,
     <<"m","o","t","i","v","a","t","i","o","n">> >>

kw_alkohol == negative_keywords[7]
kw_drogen == negative_keywords[8]
kw_therapie == positive_keywords[5]

\* sum(k in lowered for k in keywords)
Hits(keywords, lowered) ==
  Cardinality({i \in 1..Len(keywords) : Contains(keywords[i], lowered)})

\* [k for k in keywords if k in lowered]
RECURSIVE Present(_, _)
Present(keywords, lowered) ==
  IF keywords = <<>> THEN <<>>
  ELSE (IF Contains(Head(keywords), lowered) THEN <<Head(keywords)>> ELSE <<>>)
       \o Present(Tail(keywords), lowered)

\* xs[:n]
Take(xs, n) == SubSeq(xs, 1, IF Len(xs) < n THEN Len(xs) ELSE n)

(***************************************************************************)
(* IEEE-754 double arithmetic on the values analyze_text computes.         *)
(* A double d >= 0 is the integer d * 2^56, kept as <<hi, lo>> with        *)
(* value = hi * 2^28 + lo and 0 <= lo < 2^28.  Every double that occurs    *)
(* (0.1, 0.15, 0.2, their small multiples, sums and differences below 2)   *)
(* is such an integer.  Each operation computes the exact result and       *)
(* rounds it to 53 significant bits, ties to even.                         *)
(***************************************************************************)
Limb == 268435456

DNorm(hi, lo) == <<hi + (lo \div Limb), lo % Limb>>

\* number of low bits that do not fit a 53-bit significand
DropBits(hi) ==
  IF hi < 33554432 THEN 0
  ELSE IF hi < 67108864 THEN 1
  ELSE IF hi < 134217728 THEN 2
  ELSE IF hi < 268435456 THEN 3
  ELSE IF hi < 536870912 THEN 4
  ELSE 5

Pow2(s) == CASE s = 0 -> 1 [] s = 1 -> 2 [] s = 2 -> 4 [] s = 3 -> 8 [] s = 4 -> 16 [] s = 5 -> 32

\* round-to-nearest, ties-to-even
DRound(x) ==
  LET m    == Pow2(DropBits(x[1]))
      r    == x[2] % m
      kept == x[2] - r
      up   == (2 * r > m) \/ (2 * r = m /\ ((x[2] \div m) % 2 = 1))
  IN DNorm(x[1], IF up THEN kept + m ELSE kept)

DMulInt(d, n) == DRound(DNorm(d[1] * n, d[2] * n))
DAdd(a, b) == DRound(DNorm(a[1] + b[1], a[2] + b[2]))
\* a - b for a >= b
DSub(a, b) == DRound(DNorm(a[1] - b[1], a[2] - b[2]))
DLess(a, b) == a[1] < b[1] \/ (a[1] = b[1] /\ a[2] < b[2])
DLeq(a, b) == ~DLess(b, a)

\* the float literals of analyze_text
D_0_0 == <<0, 0>>
D_0_1 == <<26843545, 161061274>>
D_0_15 == <<40265318, 107374182>>
D_0_2 == <<53687091, 53687092>>
D_0_6 == <<161061273, 161061272>>
D_1_0 == <<268435456, 0>>

\* mutant of RiskScore: the min(1.0, ...) is missing
RiskScore_unclamped(neg_hits, pos_hits) ==
  LET plus  == DAdd(D_0_2, DMulInt(D_0_15, neg_hits))
      minus == DMulInt(D_0_1, pos_hits)
  IN IF DLess(plus, minus) THEN D_0_0 ELSE DSub(plus, minus)

\* mutant of RiskScore: the two hit counts are exchanged
RiskScore_swapped(neg_hits, pos_hits) ==
  LET plus  == DAdd(D_0_2, DMulInt(D_0_15, pos_hits))
      minus == DMulInt(D_0_1, neg_hits)
  IN IF DLess(plus, minus) THEN D_0_0
     ELSE LET diff == DSub(plus, minus)
          IN IF DLess(D_1_0, diff) THEN D_1_0 ELSE diff

\* min(1.0, max(0.0, 0.2 + 0.15 * neg_hits - 0.1 * pos_hits))
RiskScore(neg_hits, pos_hits) ==
  LET plus  == DAdd(D_0_2, DMulInt(D_0_15, neg_hits))
      minus == DMulInt(D_0_1, pos_hits)
  IN IF DLess(plus, minus) THEN D_0_0
     ELSE LET diff == DSub(plus, minus)
          IN IF DLess(D_1_0, diff) THEN D_1_0 ELSE diff

(***************************************************************************)
(* The document store (module database, not part of the sources): a named  *)
(* collection is the sequence of its documents in insertion order; an      *)
(* insert assigns the next ObjectId of the collection.                     *)
(***************************************************************************)
ObjectId(n) == [oid |-> n]

\* str(ObjectId)
Str(_id) == ToString(_id.oid)

\* create_document(collection_name, data) when the write succeeds
create_document(st, collection_name, data) ==
  LET _id == ObjectId(Len(st[collection_name]) + 1)
  IN [st EXCEPT ![collection_name] = Append(@, [_id |-> _id] @@ data)]

\* the id create_document returns: str(inserted_id)
inserted_id(st, collection_name) == Str(ObjectId(Len(st[collection_name]) + 1))

RECURSIVE Find(_, _)
Find(docs, user_id) ==
  IF docs = <<>> THEN <<>>
  ELSE (IF Head(docs).user_id = user_id THEN <<Head(docs)>> ELSE <<>>)
       \o Find(Tail(docs), user_id)

\* get_documents(collection_name, {"user_id": user_id}, limit) when the read succeeds
get_documents(st, collection_name, user_id, limit) ==
  Take(Find(st[collection_name], user_id), limit)

EmptyStore == [analysisreport |-> <<>>, checklistitem |-> <<>>, trainingsession |-> <<>>]

(***************************************************************************)
(* Responses.                                                              *)
(***************************************************************************)
Ok(body) == [body |-> body, status |-> 200]
HTTPException(status_code, detail) == [detail |-> detail, status |-> status_code]
\* an exception no handler catches
InternalServerError == [detail |-> "Internal Server Error", status |-> 500]

NoRequest == [op |-> "none"]
NoResponse == [status |-> 0]
NoArg == [op |-> "none"]

(***************************************************************************)
(* POST /api/analyze                                                       *)
(***************************************************************************)
rec_risk == "Empfohlen: zusätzliche Beratungsgespräche und Selbstreflexion zu Risikosituationen"
rec_abstinence == "Dokumentiere Abstinenznachweise und Teilnahme an Programmen"
rec_examples == "Erarbeite klare Beispiele für Verhaltensänderungen"
rec_therapy == "Heb hervor, welche konkreten Fortschritte du in der Therapie gemacht hast"
rec_default == "Weiter so: strukturiert deine Argumentation mit Ich-Botschaften und konkreten Beispielen"

\* mutant of Sentiment: >= where the source has >
Sentiment_tie(neg_hits, pos_hits) ==
  IF pos_hits >= neg_hits /\ pos_hits > 0 THEN "positive"
  ELSE IF neg_hits > pos_hits /\ neg_hits > 0 THEN "negative"
  ELSE "neutral"

Sentiment(neg_hits, pos_hits) ==
  IF pos_hits > neg_hits /\ pos_hits > 0 THEN "positive"
  ELSE IF neg_hits > pos_hits /\ neg_hits > 0 THEN "negative"
  ELSE "neutral"

\* mutant of KeyThemes: the [:6] is missing
KeyThemes_all(lowered) == Present(negative_keywords \o positive_keywords, lowered)

KeyThemes(lowered) == Take(Present(negative_keywords \o positive_keywords, lowered), 6)

\* mutant of Recs: the default is appended when no positive keyword is present
Recs_default(lowered, risk_score, pos_hits) ==
  LET recs == (IF DLeq(D_0_6, risk_score) THEN <<rec_risk>> ELSE <<>>)
           \o (IF Contains(kw_alkohol, lowered) \/ Contains(kw_drogen, lowered)
               THEN <<rec_abstinence>> ELSE <<>>)
           \o (IF pos_hits = 0 THEN <<rec_examples>> ELSE <<>>)
           \o (IF Contains(kw_therapie, lowered) THEN <<rec_therapy>> ELSE <<>>)
  IN IF pos_hits = 0 THEN recs \o <<rec_default>> ELSE recs

Recs(lowered, risk_score, pos_hits) ==
  LET recs == (IF DLeq(D_0_6, risk_score) THEN <<rec_risk>> ELSE <<>>)
           \o (IF Contains(kw_alkohol, lowered) \/ Contains(kw_drogen, lowered)
               THEN <<rec_abstinence>> ELSE <<>>)
           \o (IF pos_hits = 0 THEN <<rec_examples>> ELSE <<>>)
           \o (IF Contains(kw_therapie, lowered) THEN <<rec_therapy>> ELSE <<>>)
  IN IF recs = <<>> THEN <<rec_default>> ELSE recs

\* the computation of analyze_text on a stripped, non-empty text
Analysis(text) ==
  LET lowered    == Lower(text)
      neg_hits   == Hits(negative_keywords, lowered)
      pos_hits   == Hits(positive_keywords, lowered)
      risk_score == RiskScore(neg_hits, pos_hits)
  IN [key_themes      |-> KeyThemes(lowered),
      recommendations |-> Recs(lowered, risk_score, pos_hits),
      risk_score      |-> risk_score,
      sentiment       |-> Sentiment(neg_hits, pos_hits)]

\* AnalysisReport(...): pydantic validates sentiment and 0 <= risk_score <= 1
AnalysisReportValid(a) ==
  /\ a.sentiment \in {"positive", "neutral", "negative"}
  /\ DLeq(D_0_0, a.risk_score) /\ DLeq(a.risk_score, D_1_0)

AnalysisReport(user_id, text, a) ==
  [input_text |-> text, key_themes |-> a.key_themes,
   recommendations |-> a.recommendations, risk_score |-> a.risk_score,
   sentiment |-> a.sentiment, user_id |-> user_id]

analyze_text(payload, db_ok) ==
  LET text == Strip(payload.text)
  IN /\ db_ok => Len(store.analysisreport) < MaxReports
     /\ req' = [db_ok |-> db_ok, op |-> "analyze_text", payload |-> payload]
     /\ IF text = <<>>
        THEN /\ resp' = HTTPException(400, "Text cannot be empty")
             /\ UNCHANGED store
        ELSE LET a == Analysis(text)
             IN IF ~AnalysisReportValid(a)
                THEN /\ resp' = InternalServerError
                     /\ UNCHANGED store
                ELSE /\ store' = IF db_ok
                                 THEN create_document(store, "analysisreport",
                                                      AnalysisReport(payload.user_id, text, a))
                                 ELSE store
                     /\ resp' = Ok([id |-> IF db_ok
                                           THEN inserted_id(store, "analysisreport")
                                           ELSE Null,
                                    key_themes |-> a.key_themes,
                                    recommendations |-> a.recommendations,
                                    risk_score |-> a.risk_score,
                                    sentiment |-> a.sentiment])
     /\ UNCHANGED arg

(***************************************************************************)
(* POST /api/session/start                                                 *)
(***************************************************************************)
questions ==
  << [id |-> 1, q |-> "Was war der Auslöser deiner Verkehrsauffälligkeit?"],
     [id |-> 2, q |-> "Welche Verhaltensänderungen hast du seitdem umgesetzt?"],
     [id |-> 3, q |-> "Wie gehst du heute mit Risikosituationen um?"] >>

TrainingSession(user_id, status, qs, answers, score, feedback) ==
  [answers |-> answers, feedback |-> feedback, questions |-> qs,
   score |-> score, status |-> status, user_id |-> user_id]

start_session(payload, db_ok) ==
  LET session == TrainingSession(payload.user_id, "started", questions, Null, Null, Null)
  IN /\ db_ok => Len(store.trainingsession) < MaxSessions
     /\ req' = [db_ok |-> db_ok, op |-> "start_session", payload |-> payload]
     /\ store' = IF db_ok THEN create_document(store, "trainingsession", session) ELSE store
     /\ resp' = Ok([questions  |-> questions,
                    session_id |-> IF db_ok THEN inserted_id(store, "trainingsession") ELSE Null])
     /\ UNCHANGED arg

(***************************************************************************)
(* POST /api/session/submit                                                *)
(*                                                                         *)
(* An answer is a dict: a function whose domain is {} or {"text"}.  Its    *)
(* text is any JSON value; the handler reads only its truth value and its  *)
(* len(), so a str is kept as its length.                                  *)
(*                                                                         *)
(* completeness, depth and score are rationals, kept as integers:          *)
(*   completeness = complete / total, depth = depth120 / (120 * total),    *)
(*   score = score10 / 10, where score10 is (400*complete + 5*depth120) /  *)
(*   total rounded to the nearest integer.  The string lengths drawn below *)
(*   are multiples of 4, for which that quotient is never half-way between *)
(*   two integers (the one case where double rounding decides the digit).  *)
(***************************************************************************)
PyStr(n) == [len |-> n, type |-> "str"]
PyNone == [type |-> "NoneType"]
EmptyDict == [k \in {} |-> PyNone]

\* a.get("text")
GetText(a) == IF "text" \in DOMAIN a THEN a["text"] ELSE PyNone
\* a.get("text", "")
GetTextOrEmpty(a) == IF "text" \in DOMAIN a THEN a["text"] ELSE PyStr(0)

\* truth value of a Python object
Truthy(v) == v.type = "str" /\ v.len > 0

\* len(v) is defined for a str; len(None) raises TypeError
HasLen(v) == v.type = "str"

Min(a, b) == IF a < b THEN a ELSE b
Max(a, b) == IF a > b THEN a ELSE b

RECURSIVE SumSeq(_)
SumSeq(xs) == IF xs = <<>> THEN 0 ELSE Head(xs) + SumSeq(Tail(xs))

\* sum(1 for a in answers if a.get("text"))
Complete(answers) == Cardinality({i \in 1..Len(answers) : Truthy(GetText(answers[i]))})

\* 120 * sum(min(1.0, len(a.get("text", "")) / 120) for a in answers)
Depth120(answers) ==
  SumSeq([i \in 1..Len(answers) |-> Min(120, GetTextOrEmpty(answers[i]).len)])

\* round(num / den), half to even
RoundDiv(num, den) ==
  LET q == num \div den
      r == num % den
  IN IF 2 * r > den \/ (2 * r = den /\ q % 2 = 1) THEN q + 1 ELSE q

\* 10 * round(100 * (0.4 * completeness + 0.6 * depth), 1)
Score10(answers) ==
  RoundDiv(400 * Complete(answers) + 5 * Depth120(answers), Max(1, Len(answers)))

fb_complete == "Beantworte alle Fragen vollständig."
fb_depth == "Geh tiefer auf Einsichten, Auslöser und Strategien ein."
\* the source has an en dash where this string has a hyphen
fb_good == "Sehr gut strukturiert - weiter so!"

RECURSIVE Join(_, _)
\* sep.join(parts), parts a list of str, each kept as a list of its pieces
Join(sep, parts) ==
  IF parts = <<>> THEN <<>>
  ELSE IF Len(parts) = 1 THEN <<parts[1]>>
  ELSE <<parts[1], sep>> \o Join(sep, Tail(parts))

Feedback(answers) ==
  LET total == Max(1, Len(answers))
      feedback_parts ==
           \* completeness < 0.8
           (IF 5 * Complete(answers) < 4 * total THEN <<fb_complete>> ELSE <<>>)
           \* depth < 0.6
        \o (IF 5 * Depth120(answers) < 3 * 120 * total THEN <<fb_depth>> ELSE <<>>)
  IN Join(" ", IF feedback_parts = <<>> THEN <<fb_good>> ELSE feedback_parts)

\* mutant of submit_session: the last stored session is updated in place
submit_session_update(payload, db_ok) ==
  LET answers == payload.answers
      n == Len(store.trainingsession)
  IN /\ db_ok => n < MaxSessions
     /\ req' = [db_ok |-> db_ok, op |-> "submit_session", payload |-> payload]
     /\ IF \E i \in 1..Len(answers) : ~HasLen(GetTextOrEmpty(answers[i]))
        THEN /\ resp' = InternalServerError
             /\ UNCHANGED store
        ELSE LET score    == Score10(answers)
                 feedback == Feedback(answers)
                 result   == TrainingSession(payload.user_id, "submitted", <<>>,
                                             answers, score, feedback)
             IN /\ store' = IF db_ok /\ n > 0
                            THEN [store EXCEPT !.trainingsession[n] =
                                    [_id |-> @._id] @@ result]
                            ELSE IF db_ok
                            THEN create_document(store, "trainingsession", result)
                            ELSE store
                /\ resp' = Ok([feedback |-> feedback,
                               id |-> IF db_ok /\ n > 0 THEN Str(ObjectId(n))
                                      ELSE IF db_ok
                                      THEN inserted_id(store, "trainingsession")
                                      ELSE Null,
                               score |-> score])
     /\ UNCHANGED arg

submit_session(payload, db_ok) ==
  LET answers == payload.answers
  IN /\ db_ok => Len(store.trainingsession) < MaxSessions
     /\ req' = [db_ok |-> db_ok, op |-> "submit_session", payload |-> payload]
     /\ IF \E i \in 1..Len(answers) : ~HasLen(GetTextOrEmpty(answers[i]))
        THEN \* TypeError out of len(), no handler catches it
             /\ resp' = InternalServerError
             /\ UNCHANGED store
        ELSE LET score    == Score10(answers)
                 feedback == Feedback(answers)
                 result   == TrainingSession(payload.user_id, "submitted", <<>>,
                                             answers, score, feedback)
             IN /\ store' = IF db_ok
                            THEN create_document(store, "trainingsession", result)
                            ELSE store
                /\ resp' = Ok([feedback |-> feedback,
                               id |-> IF db_ok
                                      THEN inserted_id(store, "trainingsession")
                                      ELSE Null,
                               score |-> score])
     /\ UNCHANGED arg

(***************************************************************************)
(* GET /api/checklist, POST /api/checklist                                 *)
(***************************************************************************)
Limit == 100

demo_list ==
  << [completed |-> FALSE, id |-> "1", title |-> "Führungszeugnis prüfen"],
     [completed |-> FALSE, id |-> "2", title |-> "Abstinenznachweise sammeln"],
     [completed |-> FALSE, id |-> "3", title |-> "Probeinterview durchführen"] >>

\* it["id"] = str(_id); del it["_id"]
PublicItem(it) ==
  [completed |-> it.completed, id |-> Str(it._id), title |-> it.title, user_id |-> it.user_id]

\* mutant of get_checklist: an empty result also falls back to the demo list
get_checklist_demo(user_id, db_ok) ==
  /\ req' = [db_ok |-> db_ok, op |-> "get_checklist", user_id |-> user_id]
  /\ resp' = IF db_ok
             THEN LET items == get_documents(store, "checklistitem", user_id, Limit)
                  IN IF items = <<>> THEN Ok(demo_list)
                     ELSE Ok([i \in 1..Len(items) |-> PublicItem(items[i])])
             ELSE Ok(demo_list)
  /\ UNCHANGED <<store, arg>>

get_checklist(user_id, db_ok) ==
  /\ req' = [db_ok |-> db_ok, op |-> "get_checklist", user_id |-> user_id]
  /\ resp' = IF db_ok
             THEN LET items == get_documents(store, "checklistitem", user_id, Limit)
                  IN Ok([i \in 1..Len(items) |-> PublicItem(items[i])])
             ELSE Ok(demo_list)
  /\ UNCHANGED <<store, arg>>

ChecklistItem(user_id, title, completed) ==
  [completed |-> completed, title |-> title, user_id |-> user_id]

add_checklist_item(payload, db_ok, capacity) ==
  LET item == ChecklistItem(payload.user_id, payload.title, FALSE)
  IN /\ db_ok => Len(store.checklistitem) < capacity
     /\ req' = [db_ok |-> db_ok, op |-> "add_checklist_item", payload |-> payload]
     /\ store' = IF db_ok THEN create_document(store, "checklistitem", item) ELSE store
     /\ resp' = Ok([completed |-> item.completed,
                    id |-> IF db_ok THEN inserted_id(store, "checklistitem") ELSE Null,
                    title |-> item.title])
     /\ UNCHANGED arg

(***************************************************************************)
(* GET /, GET /schema: no store access                                     *)
(***************************************************************************)
read_root ==
  /\ req' = [op |-> "read_root"]
  /\ resp' = Ok([message |-> "MPU Prep Platform Backend Running"])
  /\ UNCHANGED <<store, arg>>

get_schema ==
  /\ req' = [op |-> "get_schema"]
  /\ resp' = Ok([analysisreport |-> "AnalysisReport", checklistitem |-> "ChecklistItem",
                 mpuuser |-> "MpuUser", trainingsession |-> "TrainingSession"])
  /\ UNCHANGED <<store, arg>>

(***************************************************************************)
(* Request inputs.                                                         *)
(***************************************************************************)
Users == {"u1", "u2"}
Titles == {"Termin buchen", "Gutachten lesen"}

filler == <<"I","c","h">>

RECURSIVE Pick(_, _, _)
\* the entries of xs whose index (offset by base) is in idx, in list order
Pick(xs, idx, base) ==
  IF xs = <<>> THEN <<>>
  ELSE (IF base + 1 \in idx THEN <<Head(xs)>> ELSE <<>>) \o Pick(Tail(xs), idx, base + 1)

Reverse(xs) == [i \in 1..Len(xs) |-> xs[Len(xs) + 1 - i]]

RECURSIVE Sentence(_)
\* the words separated by single blanks
Sentence(ws) ==
  IF ws = <<>> THEN <<>>
  ELSE IF Len(ws) = 1 THEN ws[1]
  ELSE ws[1] \o <<" ">> \o Sentence(Tail(ws))

\* A text naming the negative keywords neg and the positive keywords pos
\* (index sets), after a filler word; keywords in table order or reversed;
\* lower case, or upper case padded with whitespace.
TextOf(neg, pos, upper, reversed) ==
  LET ks    == Pick(negative_keywords, neg, 0) \o Pick(positive_keywords, pos, 0)
      words == <<filler>> \o (IF reversed THEN Reverse(ks) ELSE ks)
      plain == Sentence(words)
  IN IF upper
     THEN <<" ">> \o [i \in 1..Len(plain) |-> UpperChar(plain[i])] \o <<"\n">>
     ELSE plain

NegSets == {1..i : i \in 0..8} \cup {i..8 : i \in 1..8}
PosSets == {1..i : i \in 0..7} \cup {i..7 : i \in 1..7}

BlankTexts == { <<>>, <<" ">>, <<" ", "\t", "\n">> }

\* a keyword named twice
RepeatTexts ==
  {Sentence(<<filler, k, k>>) :
     k \in {(negative_keywords \o positive_keywords)[i] : i \in 1..15}}

AnalyzeTexts ==
  BlankTexts \cup RepeatTexts \cup
  {TextOf(n, p, u, r) : n \in NegSets, p \in PosSets, u \in BOOLEAN, r \in BOOLEAN}

\* "Ich angst alkohol", " ICH BEREIT\n", " "
RequestTexts ==
  { TextOf({1, 7}, {}, FALSE, FALSE), TextOf({}, {2}, TRUE, FALSE), <<" ">> }

TextLens == {0, 4, 60, 120, 132}
TextValues == {PyNone} \cup {PyStr(n) : n \in TextLens}
AnswerDicts == {EmptyDict} \cup {[text |-> v] : v \in TextValues}
AnswerLists == UNION {[1..n -> AnswerDicts] : n \in 0..MaxAnswers}

\* answers [], [{"text": "kurz"}, {}] and [{"text": None}]; session_id absent,
\* naming the first stored session, or naming no stored session
SubmitPayloads ==
  { [answers |-> <<>>, session_id |-> Null, user_id |-> "u1"],
    [answers |-> <<[text |-> PyStr(4)], EmptyDict>>, session_id |-> "1", user_id |-> "u1"],
    [answers |-> <<[text |-> PyStr(4)], EmptyDict>>, session_id |-> "404", user_id |-> "u1"],
    [answers |-> <<[text |-> PyNone]>>, session_id |-> Null, user_id |-> "u2"] }

(***************************************************************************)
(* Spec: all handlers, any order, store writes and reads may fail.         *)
(***************************************************************************)
Init ==
  /\ store = EmptyStore
  /\ req = NoRequest
  /\ resp = NoResponse
  /\ arg = NoArg

Next ==
  \/ \E t \in RequestTexts, db_ok \in BOOLEAN :
       analyze_text([text |-> t, user_id |-> Null], db_ok)
  \/ \E u \in Users, db_ok \in BOOLEAN : start_session([user_id |-> u], db_ok)
  \/ \E p \in SubmitPayloads, db_ok \in BOOLEAN : submit_session(p, db_ok)
  \/ \E u \in Users, db_ok \in BOOLEAN : get_checklist(u, db_ok)
  \/ \E db_ok \in BOOLEAN :
       add_checklist_item([title |-> "Termin buchen", user_id |-> "u1"], db_ok, MaxNewItems)
  \/ read_root
  \/ get_schema

Spec == Init /\ [][Next]_vars

(***************************************************************************)
(* SpecAnalyze: analyze_text as a function of its text.                    *)
(***************************************************************************)
InitAnalyze ==
  /\ store = EmptyStore
  /\ req = NoRequest
  /\ resp = NoResponse
  /\ arg \in [op : {"analyze_text"}, payload : [text : AnalyzeTexts, user_id : {Null, "u1"}]]

NextAnalyze == \E db_ok \in BOOLEAN : analyze_text(arg.payload, db_ok)

SpecAnalyze == InitAnalyze /\ [][NextAnalyze]_vars

(***************************************************************************)
(* SpecScore: submit_session as a function of its answers.                 *)
(***************************************************************************)
InitScore ==
  /\ store = EmptyStore
  /\ req = NoRequest
  /\ resp = NoResponse
  /\ arg \in [op : {"submit_session"},
              payload : [answers : AnswerLists, session_id : {Null}, user_id : {"u1"}]]

NextScore == \E db_ok \in BOOLEAN : submit_session(arg.payload, db_ok)

SpecScore == InitScore /\ [][NextScore]_vars

(***************************************************************************)
(* SpecChecklist: the checklist endpoints on a store that is empty or      *)
(* already holds Limit - 1 items of one user.                              *)
(***************************************************************************)
Stored(n) ==
  [i \in 1..n |-> [_id |-> ObjectId(i)] @@ ChecklistItem("u1", "Termin buchen", FALSE)]

InitChecklist ==
  /\ \E n \in {0, Limit - 1} :
       /\ store = [EmptyStore EXCEPT !.checklistitem = Stored(n)]
       /\ arg = [op |-> "checklist", stored |-> n]
  /\ req = NoRequest
  /\ resp = NoResponse

NextChecklist ==
  \/ \E u \in Users, db_ok \in BOOLEAN : get_checklist(u, db_ok)
  \/ \E u \in Users, t \in Titles, db_ok \in BOOLEAN :
       add_checklist_item([title |-> t, user_id |-> u], db_ok, arg.stored + MaxNewItems)

SpecChecklist == InitChecklist /\ [][NextChecklist]_vars

(***************************************************************************)
(* Vocabulary of the properties.                                           *)
(***************************************************************************)
IsBlank(t) == \A i \in 1..Len(t) : t[i] \in {" ", "\t", "\n"}

\* k is a contiguous substring of t
Occurs(k, t) ==
  \E i \in 1..Len(t) : i + Len(k) - 1 <= Len(t) /\ SubSeq(t, i, i + Len(k) - 1) = k

all_keywords == negative_keywords \o positive_keywords

\* the last request was an analyze of a text that is not blank
Analyzed == req.op = "analyze_text" /\ ~IsBlank(req.payload.text)

ReqLowered == Lower(req.payload.text)
NegPresent == {i \in 1..8 : Occurs(negative_keywords[i], ReqLowered)}
PosPresent == {i \in 1..7 : Occurs(positive_keywords[i], ReqLowered)}
NegHits == Cardinality(NegPresent)
PosHits == Cardinality(PosPresent)

\* the doubles 0.4 and 0.8
D_0_4 == <<107374182, 107374184>>
D_0_8 == <<214748364, 214748368>>

\* 100 * clamp(0.2 + 0.15 * n - 0.1 * p, 0, 1) in exact arithmetic
RiskPercent(n, p) == Max(0, Min(100, 20 + 15 * n - 10 * p))

\* the double d is h/100 up to binary rounding (the difference is below 1e-6)
IsPercent(d, h) ==
  /\ h * (Limb \div 100) - 1 <= d[1]
  /\ d[1] <= h * (Limb \div 100 + 1) + 1

(***************************************************************************)
(* C3: analyze of an empty or whitespace-only text ends in a 400, returns  *)
(* no result and leaves the store unchanged.                               *)
(***************************************************************************)
C3_BlankTextRejected ==
  [][(req'.op = "analyze_text" /\ IsBlank(req'.payload.text))
       => /\ resp'.status = 400
          /\ "body" \notin DOMAIN resp'
          /\ store' = store]_vars

C3_Witness ==
  /\ req.op = "analyze_text"
  /\ req.payload.text = <<" ">>
  /\ req.db_ok
  /\ resp.status = 400
  /\ Len(store.trainingsession) = 1
  /\ store.analysisreport = <<>>

(***************************************************************************)
(* C4: for a non-blank text the returned risk_score is                     *)
(* 0.2 + 0.15*neg_hits - 0.1*pos_hits clamped to [0,1], with neg_hits in   *)
(* 0..8 and pos_hits in 0..7; it lies in [0,1], as does the risk_score of  *)
(* every stored report; 4 and 0 hits give 0.8, 0 and >= 2 hits give 0.     *)
(***************************************************************************)
C4_RiskScore ==
  /\ \A i \in 1..Len(store.analysisreport) :
       LET r == store.analysisreport[i].risk_score
       IN DLeq(D_0_0, r) /\ DLeq(r, D_1_0)
  /\ Analyzed =>
       \A n \in {NegHits}, p \in {PosHits} :
         /\ resp.status = 200
         /\ n \in 0..8 /\ p \in 0..7
         /\ DLeq(D_0_0, resp.body.risk_score) /\ DLeq(resp.body.risk_score, D_1_0)
         /\ IsPercent(resp.body.risk_score, RiskPercent(n, p))
         /\ (n = 4 /\ p = 0) => resp.body.risk_score = D_0_8
         /\ (n = 0 /\ p >= 2) => resp.body.risk_score = D_0_0

C4_Witness ==
  /\ Analyzed
  /\ NegHits = 4 /\ PosHits = 0
  /\ resp.body.risk_score = D_0_8
  /\ Len(store.analysisreport) = 1
  /\ store.analysisreport[1].risk_score = D_0_8

(***************************************************************************)
(* C5: for a non-blank text the sentiment is "positive" exactly when       *)
(* pos_hits > neg_hits, "negative" exactly when neg_hits > pos_hits and    *)
(* "neutral" exactly when they are equal; a hit count is the number of     *)
(* keywords of the list present in the lower-cased text.                   *)
(***************************************************************************)
C5_Sentiment ==
  Analyzed =>
    \A n \in {NegHits}, p \in {PosHits} :
      /\ resp.status = 200
      /\ resp.body.sentiment = "positive" <=> p > n
      /\ resp.body.sentiment = "negative" <=> n > p
      /\ resp.body.sentiment = "neutral" <=> n = p

C5_Witness ==
  /\ Analyzed
  /\ NegHits = PosHits /\ NegHits > 0
  /\ resp.body.sentiment = "neutral"

(***************************************************************************)
(* C6: for a non-blank text key_themes is the first min(6, number present) *)
(* keywords present in the text, in the order of the fixed list (negative  *)
(* keywords, then positive ones), without duplicates, whatever their order *)
(* in the text.                                                            *)
(***************************************************************************)
AllPresent == {i \in 1..15 : Occurs(all_keywords[i], ReqLowered)}

\* the j-th smallest element of a set of numbers
Nth(S, j) == CHOOSE i \in S : Cardinality({m \in S : m < i}) = j - 1

C6_KeyThemes ==
  Analyzed =>
    \A present \in {AllPresent} :
      LET themes == resp.body.key_themes
      IN /\ resp.status = 200
         /\ Len(themes) = Min(6, Cardinality(present))
         /\ Len(themes) <= 6
         /\ \A j \in 1..Len(themes) : themes[j] = all_keywords[Nth(present, j)]
         /\ \A j, k \in 1..Len(themes) : j # k => themes[j] # themes[k]

\* more than six keywords present, named in reverse list order in the text
C6_Witness ==
  /\ Analyzed
  /\ Cardinality(AllPresent) > 6
  /\ Len(resp.body.key_themes) = 6
  /\ Occurs(<<"d","r","o","g","e","n"," ","a","l","k","o","h","o","l">>, ReqLowered)
  /\ resp.body.key_themes[1] = negative_keywords[1]

(***************************************************************************)
(* C7: for a non-blank text recommendations is never empty and lists, in   *)
(* this order, the high-risk string if risk_score >= 0.6, the abstinence   *)
(* string if the text contains "alkohol" or "drogen", the examples string  *)
(* if pos_hits = 0, the therapy string if the text contains "therapie";    *)
(* the default string is returned iff none applies, and then alone.        *)
(***************************************************************************)
RecOrder == <<rec_risk, rec_abstinence, rec_examples, rec_therapy>>

\* which of the four conditions hold (1 risk, 2 abstinence, 3 examples, 4 therapy)
RecDue ==
  LET neg == NegPresent
      pos == PosPresent
  IN   (IF DLeq(D_0_6, resp.body.risk_score) THEN {1} ELSE {})
  \cup (IF 7 \in neg \/ 8 \in neg THEN {2} ELSE {})
  \cup (IF pos = {} THEN {3} ELSE {})
  \cup (IF 5 \in pos THEN {4} ELSE {})

C7_Recommendations ==
  Analyzed =>
    \A due \in {RecDue} :
    LET recs == resp.body.recommendations
    IN /\ resp.status = 200
       /\ recs # <<>>
       /\ \A i \in 1..4 : (\E j \in 1..Len(recs) : recs[j] = RecOrder[i]) <=> i \in due
       /\ due # {} => /\ Len(recs) = Cardinality(due)
                      /\ \A j \in 1..Len(recs) : recs[j] = RecOrder[Nth(due, j)]
       /\ (\E j \in 1..Len(recs) : recs[j] = rec_default) <=> due = {}
       /\ due = {} => recs = <<rec_default>>

C7_Witness ==
  /\ Analyzed
  /\ resp.body.recommendations = <<rec_risk, rec_abstinence, rec_examples>>

C7_WitnessDefault ==
  /\ Analyzed
  /\ resp.body.recommendations = <<rec_default>>

(***************************************************************************)
(* C10: for a non-blank text a "positive" sentiment comes with a           *)
(* risk_score of at most 0.4, hence never with the high-risk or the        *)
(* examples recommendation; a risk_score >= 0.6 comes with                 *)
(* neg_hits > pos_hits and the sentiment "negative".                       *)
(***************************************************************************)
C10_PositiveLowRisk ==
  Analyzed =>
    \A n \in {NegHits}, p \in {PosHits} :
    LET recs == resp.body.recommendations
    IN /\ resp.status = 200
       /\ resp.body.sentiment = "positive" =>
            /\ DLeq(resp.body.risk_score, D_0_4)
            /\ \A j \in 1..Len(recs) : recs[j] \notin {rec_risk, rec_examples}
       /\ DLeq(D_0_6, resp.body.risk_score) =>
            /\ n > p
            /\ resp.body.sentiment = "negative"

\* positive with the largest risk: 6 negative and 7 positive keywords
C10_Witness ==
  /\ Analyzed
  /\ resp.body.sentiment = "positive"
  /\ NegHits = 6 /\ PosHits = 7
  /\ IsPercent(resp.body.risk_score, 40)

(***************************************************************************)
(* C8: for every accepted answers list the score is                        *)
(* 100*(0.4*completeness + 0.6*depth) rounded to one decimal, with         *)
(* completeness = (answers with non-empty text)/max(1, total) and depth =  *)
(* the average of min(1, len(text)/120), a missing text counting as length *)
(* 0; the score is within [0,100], the empty list gives 0, and             *)
(* [{text: "kurz"}, {}] gives 21.0 with both corrective sentences.         *)
(***************************************************************************)
\* the length the claim gives an answer's text: 0 when there is none
TextLen(a) ==
  IF "text" \in DOMAIN a /\ a["text"].type = "str" THEN a["text"].len ELSE 0

C8_Score ==
  req.op = "submit_session" =>
    \A answers \in {req.payload.answers} :
      LET total    == Max(1, Len(answers))
          complete == Cardinality({i \in 1..Len(answers) : TextLen(answers[i]) > 0})
          depth120 == SumSeq([i \in 1..Len(answers) |-> Min(120, TextLen(answers[i]))])
          exact10  == 400 * complete + 5 * depth120
      IN /\ resp.status = 200
         /\ resp.body.score \in 0..1000
         /\ 2 * (total * resp.body.score - exact10) <= total
         /\ 2 * (exact10 - total * resp.body.score) <= total
         /\ answers = <<>> => resp.body.score = 0
         /\ answers = <<[text |-> PyStr(4)], EmptyDict>> =>
              /\ resp.body.score = 210
              /\ resp.body.feedback = <<fb_complete, " ", fb_depth>>

(***************************************************************************)
(* C2: every request to analyze (text not blank), session start, session   *)
(* submit or checklist create returns its computed result whether the      *)
(* store write succeeds or raises; a failed write only makes the id        *)
(* (session_id for start) null.                                            *)
(***************************************************************************)
WithoutId(body) == [k \in DOMAIN body \ {"id", "session_id"} |-> body[k]]

C2_ResultDespiteStoreFailure ==
  /\ Analyzed =>
       /\ resp.status = 200
       /\ WithoutId(resp.body) = Analysis(Strip(req.payload.text))
       /\ resp.body.id = Null <=> ~req.db_ok
  /\ req.op = "start_session" =>
       /\ resp.status = 200
       /\ resp.body.questions = questions
       /\ resp.body.session_id = Null <=> ~req.db_ok
  /\ req.op = "submit_session" =>
       /\ resp.status = 200
       /\ DOMAIN resp.body = {"score", "feedback", "id"}
       /\ resp.body.id = Null <=> ~req.db_ok
  /\ req.op = "add_checklist_item" =>
       /\ resp.status = 200
       /\ WithoutId(resp.body) = [completed |-> FALSE, title |-> req.payload.title]
       /\ resp.body.id = Null <=> ~req.db_ok

(***************************************************************************)
(* C9: the store is append-only.  No step changes or removes a stored      *)
(* record, so no stored status ever changes; a step adds at most one       *)
(* record; a session start that is stored adds one trainingsession record  *)
(* with status "started"; a session submit that is stored adds one         *)
(* separate trainingsession record with status "submitted", no questions,  *)
(* and the score and feedback returned; a submit is accepted whether or    *)
(* not a start or the given session_id is stored.                          *)
(***************************************************************************)
Collections == {"analysisreport", "trainingsession", "checklistitem"}

IsPrefix(xs, ys) == Len(xs) <= Len(ys) /\ SubSeq(ys, 1, Len(xs)) = xs

Total(st) == Len(st.analysisreport) + Len(st.trainingsession) + Len(st.checklistitem)

SessionIds(st) == {Str(st.trainingsession[i]._id) : i \in 1..Len(st.trainingsession)}

C9_AppendOnly ==
  [][/\ Total(store') <= Total(store) + 1
     /\ (req'.op = "start_session" /\ resp'.body.session_id # Null) =>
          /\ Len(store'.trainingsession) = Len(store.trainingsession) + 1
          /\ store'.trainingsession[Len(store'.trainingsession)].status = "started"
          /\ store'.trainingsession[Len(store'.trainingsession)].questions = questions
          /\ Str(store'.trainingsession[Len(store'.trainingsession)]._id)
               = resp'.body.session_id
          /\ resp'.body.session_id \notin SessionIds(store)
     /\ (req'.op = "submit_session" /\ resp'.status = 200 /\ resp'.body.id # Null) =>
            LET new == store'.trainingsession[Len(store'.trainingsession)]
            IN /\ Len(store'.trainingsession) = Len(store.trainingsession) + 1
               /\ new.status = "submitted"
               /\ new.questions = <<>>
               /\ new.score = resp'.body.score
               /\ new.feedback = resp'.body.feedback
               /\ Str(new._id) = resp'.body.id
               /\ resp'.body.id \notin SessionIds(store)
     /\ (req'.op = "submit_session"
           /\ \A i \in 1..Len(req'.payload.answers) :
                GetTextOrEmpty(req'.payload.answers[i]).type = "str") =>
          resp'.status = 200
     /\ \A c \in Collections : IsPrefix(store[c], store'[c])
    ]_vars

\* a started record followed by a separate submitted record, the submit
\* naming a session_id that is not stored
C9_Witness ==
  /\ req.op = "submit_session"
  /\ req.payload.session_id = "404"
  /\ resp.status = 200
  /\ resp.body.id = "2"
  /\ Len(store.trainingsession) = 2
  /\ store.trainingsession[1].status = "started"
  /\ store.trainingsession[2].status = "submitted"

(***************************************************************************)
(* C1: when the store read succeeds, GET /api/checklist for a user lists   *)
(* every item stored by POST /api/checklist for that user, with            *)
(* completed = false, as long as the user has at most 100 stored items; a  *)
(* user without stored items gets the empty list; the demo list is         *)
(* returned only when the read fails.                                      *)
(***************************************************************************)
Listed(d, body) ==
  \E j \in 1..Len(body) :
    /\ body[j].id = ToString(d._id.oid)
    /\ body[j].title = d.title
    /\ body[j].completed = FALSE

ItemsOf(user_id) ==
  {i \in 1..Len(store.checklistitem) : store.checklistitem[i].user_id = user_id}

\* a POST that returns an id has stored the item under that id
PostStored ==
  (req.op = "add_checklist_item" /\ resp.body.id # Null) =>
    LET d == store.checklistitem[Len(store.checklistitem)]
    IN /\ resp.body.id = ToString(d._id.oid)
       /\ d.user_id = req.payload.user_id
       /\ d.title = req.payload.title
       /\ d.completed = FALSE

C1_ChecklistListedUpToLimit ==
  /\ PostStored
  /\ req.op = "get_checklist" =>
       \A mine \in {ItemsOf(req.user_id)} :
         /\ resp.status = 200
         /\ resp.body = demo_list => ~req.db_ok
         /\ req.db_ok =>
              /\ Cardinality(mine) <= Limit =>
                   \A i \in mine : Listed(store.checklistitem[i], resp.body)
              /\ mine = {} => resp.body = <<>>

\* the claim as stated: without the limit of 100
C1_ChecklistListed ==
  /\ PostStored
  /\ req.op = "get_checklist" =>
       \A mine \in {ItemsOf(req.user_id)} :
         /\ resp.status = 200
         /\ resp.body = demo_list => ~req.db_ok
         /\ req.db_ok =>
              /\ \A i \in mine : Listed(store.checklistitem[i], resp.body)
              /\ mine = {} => resp.body = <<>>

\* the user's 100th item, stored by a POST, is listed; another user has items
C1_Witness ==
  /\ req.op = "get_checklist"
  /\ req.db_ok
  /\ req.user_id = "u1"
  /\ Cardinality(ItemsOf("u1")) = Limit
  /\ ItemsOf("u2") # {}
  /\ Len(resp.body) = Limit
  /\ resp.body[Limit].completed = FALSE
  /\ resp.body[Limit].user_id = "u1"

====
